---- MODULE Spec2Model ----
(***************************************************************************)
(* Model of docs/presentation/convert_to_pptx.py: parse_markdown (the      *)
(* segmenter, the line classifier, the slide builder and the table         *)
(* extractor) and create_presentation with its three add_*_slide layout    *)
(* routines.  A Python str is a sequence of one-character strings, a list  *)
(* is a sequence; None (slide_data['table']) is the empty sequence, which  *)
(* has the same truth value.                                               *)
(***************************************************************************)
EXTENDS Integers, Sequences, FiniteSets, TLC

VARIABLES content, sections, si, slides, title_slide_done,
          lines, li, slide_data, in_code_block, code_lines, table_lines,
          deck, ri, pc

vars == <<content, sections, si, slides, title_slide_done,
          lines, li, slide_data, in_code_block, code_lines, table_lines,
          deck, ri, pc>>

parseVars == <<lines, li, slide_data, in_code_block, code_lines, table_lines>>

(***************************************************************************)
(* Python str primitives, computed character by character.                 *)
(***************************************************************************)
NL == "\n"

IsSpace(c) == c \in {" ", NL}

RECURSIVE LStrip(_)
LStrip(s) == IF s # <<>> /\ IsSpace(Head(s)) THEN LStrip(Tail(s)) ELSE s

RECURSIVE RStrip(_)
RStrip(s) ==
    IF s # <<>> /\ IsSpace(s[Len(s)]) THEN RStrip(SubSeq(s, 1, Len(s) - 1)) ELSE s

Strip(s) == LStrip(RStrip(s))

StartsWith(s, p) == Len(s) >= Len(p) /\ SubSeq(s, 1, Len(p)) = p

\* str.find: the first index at which p occurs in s, 0 when it does not.
Find(s, p) ==
    LET hits == {i \in 1..(Len(s) - Len(p) + 1) : SubSeq(s, i, i + Len(p) - 1) = p}
    IN  IF hits = {} THEN 0 ELSE CHOOSE i \in hits : \A j \in hits : i <= j

Contains(s, p) == Find(s, p) # 0

\* str.split(sep): non-overlapping occurrences, scanned left to right.
RECURSIVE Split(_, _)
Split(s, sep) ==
    LET i == Find(s, sep)
    IN  IF i = 0 THEN <<s>>
        ELSE <<SubSeq(s, 1, i - 1)>> \o Split(SubSeq(s, i + Len(sep), Len(s)), sep)

\* s[n:]
From(s, n) == SubSeq(s, n + 1, Len(s))

\* s[:n]
Take(s, n) == SubSeq(s, 1, IF Len(s) < n THEN Len(s) ELSE n)

RECURSIVE Join(_, _)
Join(ls, sep) ==
    IF ls = <<>> THEN <<>>
    ELSE IF Len(ls) = 1 THEN ls[1]
    ELSE ls[1] \o sep \o Join(Tail(ls), sep)

RULE == <<"-", "-", "-">>
\* The backquote cannot be written in a string here: BQ stands for it.
BQ == "~"
FENCE == <<BQ, BQ, BQ>>
PIPE == <<"|">>

(***************************************************************************)
(* parse_markdown: the per-line classification, in the order of the        *)
(* if-chain of the loop body.                                              *)
(***************************************************************************)
IsMainTitle(line) == StartsWith(line, <<"#", " ">>) /\ ~StartsWith(line, <<"#", "#">>)

ClassifyTableFirst(line, in_code) ==
    IF Strip(line) = <<>> THEN "blank"
    ELSE IF StartsWith(Strip(line), FENCE) THEN "fence"
    ELSE IF StartsWith(Strip(line), PIPE) THEN "table"
    ELSE IF in_code THEN "code"
    ELSE IF IsMainTitle(line) THEN "h1"
    ELSE IF StartsWith(line, <<"#", "#", " ">>) THEN "h2"
    ELSE IF StartsWith(line, <<"#", "#", "#", " ">>) THEN "h3"
    ELSE "plain"

Classify(line, in_code) ==
    IF Strip(line) = <<>> THEN "blank"
    ELSE IF StartsWith(Strip(line), FENCE) THEN "fence"
    ELSE IF in_code THEN "code"
    ELSE IF StartsWith(Strip(line), PIPE) THEN "table"
    ELSE IF IsMainTitle(line) THEN "h1"
    ELSE IF StartsWith(line, <<"#", "#", " ">>) THEN "h2"
    ELSE IF StartsWith(line, <<"#", "#", "#", " ">>) THEN "h3"
    ELSE "plain"

EmptySlide == [title |-> <<>>, subtitles |-> <<>>, content |-> <<>>,
               table |-> <<>>, code |-> <<>>]

\* The cells of one table line: split on '|', drop the outer fields, strip.
Cells(table_line) ==
    LET parts == Split(table_line, PIPE)
        inner == SubSeq(parts, 2, Len(parts) - 1)
    IN  [k \in 1..Len(inner) |-> Strip(inner[k])]

\* The "Process table if exists" block: lines holding '---' and lines with
\* no cell are skipped.
RECURSIVE TableData(_)
TableData(tls) ==
    IF tls = <<>> THEN <<>>
    ELSE IF ~Contains(Head(tls), RULE) /\ Cells(Head(tls)) # <<>>
         THEN <<Cells(Head(tls))>> \o TableData(Tail(tls))
         ELSE TableData(Tail(tls))

HasContentOrTitleWithSubtitles(sd) ==
    sd.title # <<>> \/ sd.content # <<>> \/ sd.table # <<>> \/ sd.code # <<>>
        \/ sd.subtitles # <<>>

\* "Only add slide if it has content or title"
HasContentOrTitle(sd) ==
    sd.title # <<>> \/ sd.content # <<>> \/ sd.table # <<>> \/ sd.code # <<>>

(***************************************************************************)
(* parse_markdown, one action per step of its two nested loops.            *)
(***************************************************************************)
\* content = f.read(); sections = content.split('---')
ReadAndSplit ==
    /\ pc = "read"
    /\ sections' = Split(content, RULE)
    /\ si' = 1
    /\ pc' = "section"
    /\ UNCHANGED <<content, slides, title_slide_done, parseVars, deck, ri>>

\* if not section.strip(): continue
SkipBlankSection ==
    /\ pc = "section"
    /\ si <= Len(sections)
    /\ Strip(sections[si]) = <<>>
    /\ si' = si + 1
    /\ UNCHANGED <<content, sections, slides, title_slide_done, parseVars, deck, ri, pc>>

BeginSection ==
    /\ pc = "section"
    /\ si <= Len(sections)
    /\ Strip(sections[si]) # <<>>
    /\ lines' = Split(Strip(sections[si]), <<NL>>)
    /\ li' = 1
    /\ slide_data' = EmptySlide
    /\ in_code_block' = FALSE
    /\ code_lines' = <<>>
    /\ table_lines' = <<>>
    /\ pc' = "line"
    /\ UNCHANGED <<content, sections, si, slides, title_slide_done, deck, ri>>

AtLine(kind) ==
    /\ pc = "line"
    /\ li <= Len(lines)
    /\ Classify(lines[li], in_code_block) = kind
    /\ li' = li + 1
    /\ UNCHANGED <<content, sections, si, slides, title_slide_done, lines, deck, ri, pc>>

\* "Skip empty lines": kept as '' while a code block is open.
EmptyLine ==
    /\ AtLine("blank")
    /\ code_lines' = IF in_code_block THEN Append(code_lines, <<>>) ELSE code_lines
    /\ UNCHANGED <<slide_data, in_code_block, table_lines>>

CodeFenceAccumulate ==
    /\ AtLine("fence")
    /\ IF in_code_block
       THEN /\ slide_data' = [slide_data EXCEPT !.code = slide_data.code \o code_lines]
            /\ code_lines' = <<>>
            /\ in_code_block' = FALSE
       ELSE /\ in_code_block' = TRUE
            /\ UNCHANGED <<slide_data, code_lines>>
    /\ UNCHANGED table_lines

\* A line whose stripped text starts with the fence marker toggles the block;
\* closing it stores the lines gathered since it was opened.
CodeFence ==
    /\ AtLine("fence")
    /\ IF in_code_block
       THEN /\ slide_data' = [slide_data EXCEPT !.code = code_lines]
            /\ code_lines' = <<>>
            /\ in_code_block' = FALSE
       ELSE /\ in_code_block' = TRUE
            /\ UNCHANGED <<slide_data, code_lines>>
    /\ UNCHANGED table_lines

CodeLine ==
    /\ AtLine("code")
    /\ code_lines' = Append(code_lines, lines[li])
    /\ UNCHANGED <<slide_data, in_code_block, table_lines>>

TableLine ==
    /\ AtLine("table")
    /\ table_lines' = Append(table_lines, lines[li])
    /\ UNCHANGED <<slide_data, in_code_block, code_lines>>

MainTitleAlways ==
    /\ AtLine("h1")
    /\ slide_data' = [slide_data EXCEPT !.title = Strip(From(lines[li], 2))]
    /\ UNCHANGED <<in_code_block, code_lines, table_lines>>

\* "# Title": sets the title only while no slide has been added yet.
MainTitle ==
    /\ AtLine("h1")
    /\ slide_data' = IF ~title_slide_done
                     THEN [slide_data EXCEPT !.title = Strip(From(lines[li], 2))]
                     ELSE slide_data
    /\ UNCHANGED <<in_code_block, code_lines, table_lines>>

SectionTitle ==
    /\ AtLine("h2")
    /\ slide_data' = [slide_data EXCEPT !.title = Strip(From(lines[li], 3))]
    /\ UNCHANGED <<in_code_block, code_lines, table_lines>>

Subtitle ==
    /\ AtLine("h3")
    /\ slide_data' = [slide_data EXCEPT
                        !.subtitles = Append(@, Strip(From(lines[li], 4)))]
    /\ UNCHANGED <<in_code_block, code_lines, table_lines>>

RegularContent ==
    /\ AtLine("plain")
    /\ slide_data' = [slide_data EXCEPT !.content = Append(@, Strip(lines[li]))]
    /\ UNCHANGED <<in_code_block, code_lines, table_lines>>

\* After the last line of a section: the table block, then the slide is
\* added when it has a title, content, a table or code.
EndSection ==
    /\ pc = "line"
    /\ li > Len(lines)
    /\ LET table_data == IF table_lines # <<>> THEN TableData(table_lines) ELSE <<>>
           sd == [slide_data EXCEPT !.table = table_data]
       IN  /\ slide_data' = sd
           /\ IF HasContentOrTitle(sd)
              THEN /\ title_slide_done' = TRUE
                   /\ slides' = Append(slides, sd)
              ELSE UNCHANGED <<title_slide_done, slides>>
    /\ si' = si + 1
    /\ pc' = "section"
    /\ UNCHANGED <<content, sections, lines, li, in_code_block, code_lines,
                   table_lines, deck, ri>>

\* return slides
ParseDone ==
    /\ pc = "section"
    /\ si > Len(sections)
    /\ ri' = 1
    /\ pc' = "render"
    /\ UNCHANGED <<content, sections, si, slides, title_slide_done, parseVars, deck>>

(***************************************************************************)
(* Lengths are EMU, as pptx.util.Inches computes them:                     *)
(* Inches(x) = int(x * 914400).                                            *)
(***************************************************************************)
Inches_0_05 == 45720
Inches_0_1 == 91440
Inches_0_5 == 457200
Inches_0_6 == 548640
Inches_0_7 == 640080
Inches_0_8 == 731520
Inches_0_9 == 822960
Inches_1_2 == 1097280
Inches_1_5 == 1371600
Inches_1_6 == 1463040
Inches_2_0 == 1828800
Inches_2_5 == 2286000
Inches_3_0 == 2743200
Inches_3_2 == 2926080
Inches_3_5 == 3200400
Inches_4_5 == 4114800
Inches_5_5 == 5029200

\* The truncation limits of add_content_slide.
MaxShortContent == 5
MaxTableRows == 10
MaxCodeLines == 25

Region(kind, top, height, items) ==
    [kind |-> kind, top |-> top, height |-> height, items |-> items]

Min(a, b) == IF a < b THEN a ELSE b

\* The section marker of create_presentation: the title starts with one
\* given character and holds a given pair of characters.  The three are
\* non-ASCII in the source; "D", "B" and "F" stand for them.
SEC_FIRST == <<"D">>
SEC_PART == <<"B", "F">>

IsSection(sd) ==
    /\ StartsWith(sd.title, SEC_FIRST)
    /\ Contains(sd.title, SEC_PART)
    /\ sd.content = <<>>
    /\ sd.table = <<>>
    /\ sd.code = <<>>

RoleSectionFirst(i, sd) ==
    IF IsSection(sd) THEN "SectionSlide"
    ELSE IF i = 1 THEN "TitleSlide"
    ELSE "ContentSlide"

\* The if / elif / else of the slide loop of create_presentation.
Role(i, sd) ==
    IF i = 1 THEN "TitleSlide"
    ELSE IF IsSection(sd) THEN "SectionSlide"
    ELSE "ContentSlide"

\* add_title_slide(prs, title, content_lines)
TitleRegions(title, content_lines) ==
    <<Region("Title", Inches_2_0, Inches_1_2, <<title>>)>>
    \o (IF content_lines # <<>>
        THEN <<Region("Subtitle", Inches_3_5, Inches_2_0, content_lines)>>
        ELSE <<>>)

\* add_section_slide(prs, title)
SectionRegions(title) == <<Region("Title", Inches_3_0, Inches_1_5, <<title>>)>>

\* The cells add_content_slide writes: at most 10 rows, as many columns as
\* the first row has, '' where a row is shorter.
TableGrid(table) ==
    LET rows == Min(Len(table), MaxTableRows)
        cols == Len(table[1])
    IN  [r \in 1..rows |->
            [c \in 1..cols |-> IF c <= Len(table[r]) THEN table[r][c] ELSE <<>>]]

ShownCodeAll(code) == code

\* code[:25]
ShownCode(code) == Take(code, MaxCodeLines)

\* add_content_slide(prs, slide_data): the shapes it adds, top to bottom in
\* the order of its statements, top_pos threaded through them.  The text of
\* a content paragraph is given before format_text.
ContentRegions(sd) ==
    LET top0 == Inches_0_5
        titleR == IF sd.title # <<>>
                  THEN <<Region("Title", top0, Inches_0_8, <<sd.title>>)>> ELSE <<>>
        top1 == IF sd.title # <<>> THEN top0 + Inches_0_9 ELSE top0
        subR == IF sd.subtitles # <<>>
                THEN <<Region("Subtitle", top1, Inches_0_6, sd.subtitles)>> ELSE <<>>
        top2 == IF sd.subtitles # <<>> THEN top1 + Inches_0_7 ELSE top1
        has_table_or_code == sd.table # <<>> \/ sd.code # <<>>
        content_height == IF has_table_or_code THEN Inches_2_5 ELSE Inches_5_5
        contR == IF sd.content # <<>> /\ ~has_table_or_code
                 THEN <<Region("Content", top2, content_height, sd.content)>>
                 ELSE IF sd.content # <<>>
                 THEN <<Region("Content", top2, Inches_1_5,
                               Take(sd.content, MaxShortContent))>>
                 ELSE <<>>
        top3 == IF sd.content # <<>> /\ ~has_table_or_code THEN top2 + content_height
                ELSE IF sd.content # <<>> THEN top2 + Inches_1_6
                ELSE top2
        tableR == IF sd.table # <<>>
                  THEN <<Region("Table", top3, Inches_3_0, TableGrid(sd.table))>>
                  ELSE <<>>
        top4 == IF sd.table # <<>> THEN top3 + Inches_3_2 ELSE top3
        code_top == IF sd.table = <<>> THEN top4 ELSE Inches_4_5
        codeR == IF sd.code # <<>>
                 THEN <<Region("CodeBackground", code_top - Inches_0_05,
                               Inches_2_5 + Inches_0_1, <<>>),
                        Region("Code", code_top, Inches_2_5, ShownCode(sd.code))>>
                 ELSE <<>>
    IN  titleR \o subR \o contR \o tableR \o codeR

(***************************************************************************)
(* create_presentation: one action per slide, by the routine it calls.     *)
(***************************************************************************)
AddSlide(role, regions) ==
    /\ pc = "render"
    /\ ri <= Len(slides)
    /\ Role(ri, slides[ri]) = role
    /\ deck' = Append(deck, [role |-> role, regions |-> regions])
    /\ ri' = ri + 1
    /\ UNCHANGED <<content, sections, si, slides, title_slide_done, parseVars, pc>>

AddTitleSlide ==
    /\ pc = "render" /\ ri <= Len(slides)
    /\ AddSlide("TitleSlide", TitleRegions(slides[ri].title, slides[ri].content))

AddSectionSlide ==
    /\ pc = "render" /\ ri <= Len(slides)
    /\ AddSlide("SectionSlide", SectionRegions(slides[ri].title))

AddContentSlide ==
    /\ pc = "render" /\ ri <= Len(slides)
    /\ AddSlide("ContentSlide", ContentRegions(slides[ri]))

\* prs.save(output_file)
Save ==
    /\ pc = "render"
    /\ ri > Len(slides)
    /\ pc' = "done"
    /\ UNCHANGED <<content, sections, si, slides, title_slide_done, parseVars, deck, ri>>

(***************************************************************************)
(* The input documents.  Free documents are every sequence of at most      *)
(* MaxFreeLines lines drawn from FreeLines; the three shaped families      *)
(* reach the longer cases the free ones cannot: long and repeated code     *)
(* blocks, tables with a separator row, and every combination of regions   *)
(* on a slide after the first.                                             *)
(***************************************************************************)
MaxFreeLines == 3
MaxFenceLines == 26
MaxContentLines == 6
MaxDataRows == 2

H1_A == <<"#", " ", "A">>
H2_T == <<"#", "#", " ", "T">>
H2_SEC == <<"#", "#", " ", "D", "1", "B", "F">>
H3_S == <<"#", "#", "#", " ", "S">>
PLAIN_X == <<" ", "x">>
ROW_AB == <<"|", " ", "a", " ", "|", " ", "b", " ", "|">>
ROW_12 == <<"|", " ", "1", " ", "|", " ", "2", " ", "|">>
ROW_34 == <<"|", " ", "3", " ", "|", " ", "4", " ", "|">>
ROW_C == <<"|", " ", "c", " ", "|">>
SEP_PLAIN == <<"|", "-", "-", "-", "|", "-", "-", "-", "|">>
SEP_SPACED == <<"|", " ", "-", "-", "-", " ", "|", " ", "-", "-", "-", " ", "|">>
SEP_COLON == <<"|", ":", "-", ":", "|", ":", "-", ":", "|">>
SEP_SHORT == <<"|", "-", "-", "|", "-", "-", "|">>
RULE4 == <<"-", "-", "-", "-">>
WS_ONLY == <<" ">>

FreeLines == {H1_A, H2_T, H2_SEC, H3_S, PLAIN_X, FENCE, ROW_AB, SEP_PLAIN,
              RULE, RULE4, WS_ONLY, <<>>}

SeqsUpTo(S, n) == UNION {[1..k -> S] : k \in 0..n}

FreeDocs == {Join(ls, <<NL>>) : ls \in SeqsUpTo(FreeLines, MaxFreeLines)}

Digits == <<"0", "1", "2", "3", "4", "5", "6", "7", "8", "9">>

\* The i-th line of a long code block: its two-digit number.
Numbered(i) == <<Digits[(i \div 10) + 1], Digits[(i % 10) + 1]>>

FenceDocs ==
    {Join(<<PLAIN_X, RULE, H2_T>>
          \o (IF first THEN <<FENCE, PLAIN_X, FENCE>> ELSE <<>>)
          \o <<FENCE>> \o [i \in 1..n |-> Numbered(i)]
          \o (IF closed THEN <<FENCE>> ELSE <<>>), <<NL>>) :
        first \in BOOLEAN, closed \in BOOLEAN, n \in 0..MaxFenceLines}

TableRows == <<ROW_12, ROW_34, ROW_C>>
Separators == {SEP_PLAIN, SEP_SPACED, SEP_COLON, SEP_SHORT}

TableDocs ==
    {Join(<<ROW_AB, sep>> \o SubSeq(TableRows, 1, n), <<NL>>) :
        sep \in Separators, n \in 1..MaxDataRows}

LayoutDocs ==
    {Join(<<PLAIN_X, RULE>>
          \o (IF t THEN <<H2_T>> ELSE <<>>)
          \o (IF st THEN <<H3_S>> ELSE <<>>)
          \o [i \in 1..nc |-> Numbered(i)]
          \o (IF tb THEN <<ROW_AB, ROW_C>> ELSE <<>>)
          \o (IF cd THEN <<FENCE, PLAIN_X, FENCE>> ELSE <<>>), <<NL>>) :
        t \in BOOLEAN, st \in BOOLEAN, nc \in 0..MaxContentLines,
        tb \in BOOLEAN, cd \in BOOLEAN}

Docs == FreeDocs \cup FenceDocs \cup TableDocs \cup LayoutDocs

Init ==
    /\ content \in Docs
    /\ sections = <<>>
    /\ si = 1
    /\ slides = <<>>
    /\ title_slide_done = FALSE
    /\ lines = <<>>
    /\ li = 1
    /\ slide_data = EmptySlide
    /\ in_code_block = FALSE
    /\ code_lines = <<>>
    /\ table_lines = <<>>
    /\ deck = <<>>
    /\ ri = 1
    /\ pc = "read"

Next ==
    \/ ReadAndSplit
    \/ SkipBlankSection
    \/ BeginSection
    \/ EmptyLine
    \/ CodeFence
    \/ CodeLine
    \/ TableLine
    \/ MainTitle
    \/ SectionTitle
    \/ Subtitle
    \/ RegularContent
    \/ EndSection
    \/ ParseDone
    \/ AddTitleSlide
    \/ AddSectionSlide
    \/ AddContentSlide
    \/ Save

Spec == Init /\ [][Next]_vars

(***************************************************************************)
(* Vocabulary of the properties.                                           *)
(***************************************************************************)
Last(sq) == sq[Len(sq)]

IsFenceBoundary(line) == Strip(line) # <<>> /\ StartsWith(Strip(line), FENCE)

\* The indices of the fence lines of a segment, in order.
FenceIdx(ls) ==
    LET isFence(i) == IsFenceBoundary(ls[i])
    IN  SelectSeq([i \in 1..Len(ls) |-> i], isFence)

\* The lines strictly between two indices, a blank one as ''.
Interior(ls, a, b) ==
    [k \in 1..(b - a - 1) |->
        IF Strip(ls[a + k]) = <<>> THEN <<>> ELSE ls[a + k]]

\* The interior of the last fence that is opened and closed in ls.
LastClosedFence(ls) ==
    LET f == FenceIdx(ls)
        m == Len(f) \div 2
    IN  IF m = 0 THEN <<>> ELSE Interior(ls, f[2 * m - 1], f[2 * m])

\* The interior of a fence left open at the end of ls.
OpenFenceTail(ls) ==
    LET f == FenceIdx(ls)
    IN  Interior(ls, f[Len(f)], Len(ls) + 1)

FourFieldsEmpty(sd) ==
    sd.title = <<>> /\ sd.content = <<>> /\ sd.table = <<>> /\ sd.code = <<>>

H2Titles(ls) ==
    {Strip(From(ls[i], 3)) : i \in {j \in 1..Len(ls) : StartsWith(ls[j], <<"#", "#", " ">>)}}

(***************************************************************************)
(* C1.  Once a slide has been added (title_slide_done), a "# " line of a   *)
(* later segment changes neither the title nor the content of the slide    *)
(* being built and adds no slide; the title of a later slide is empty or   *)
(* comes from a "## " line of its own segment.                             *)
(***************************************************************************)
C1_LaterTitleFromH2 ==
    pc = "line" /\ title_slide_done =>
        slide_data.title \in ({<<>>} \cup H2Titles(lines))

C1_H1StepDropped ==
    pc = "line" /\ li <= Len(lines) /\ title_slide_done /\ IsMainTitle(lines[li]) =>
        /\ slide_data'.title = slide_data.title
        /\ slide_data'.content = slide_data.content
        /\ slides' = slides

\* C1: after the first slide is added, a "# " line is dropped: it sets no
\* title, adds no content, and later titles come from "## " lines only.
C1_TitlePrecedence == [](C1_LaterTitleFromH2) /\ [][C1_H1StepDropped]_vars

\* A second segment made of one "# " line has been read after the first
\* segment's "# A" became the title of slide 1: its title is still empty.
C1_Witness ==
    /\ pc = "line" /\ title_slide_done
    /\ Len(lines) = 1 /\ li = 2 /\ lines[1] = H1_A
    /\ slides # <<>> /\ slides[1].title = <<"A">>
    /\ slide_data.title = <<>>

(***************************************************************************)
(* C2.  A fence left open at the end of a segment is treated as closed:    *)
(* the lines gathered since it was opened are the code of the segment's    *)
(* slide, which is added when there is any such line.                      *)
(***************************************************************************)
C2_UnterminatedFenceAttached ==
    pc = "section" /\ in_code_block =>
        /\ slide_data.code = OpenFenceTail(lines)
        /\ (OpenFenceTail(lines) # <<>> =>
                slides # <<>> /\ Last(slides) = slide_data)

(***************************************************************************)
(* C3.  A document that is one table (a header row, a separator row, data  *)
(* rows) gives exactly one slide, whose table holds the rows that are not  *)
(* made of '-', ':', blanks and pipes only, in order.                      *)
(***************************************************************************)
IsSeparatorRow(row) == \A i \in 1..Len(row) : row[i] \in {"-", ":", " ", "|"}

RECURSIVE NonSeparatorGrid(_)
NonSeparatorGrid(rows) ==
    IF rows = <<>> THEN <<>>
    ELSE IF IsSeparatorRow(Head(rows)) THEN NonSeparatorGrid(Tail(rows))
    ELSE <<Cells(Head(rows))>> \o NonSeparatorGrid(Tail(rows))

\* C3: a one-table document gives one slide holding its non-separator rows.
C3_TableExtraction ==
    pc = "done" /\ content \in TableDocs =>
        /\ Len(slides) = 1
        /\ slides[1].table = NonSeparatorGrid(Split(Strip(content), <<NL>>))

Rank(kind) ==
    CASE kind = "Title" -> 1
      [] kind = "Subtitle" -> 2
      [] kind = "Content" -> 3
      [] kind = "Table" -> 4
      [] kind = "Code" -> 5

IsTypedRegion(r) == r.kind # "CodeBackground"

\* C5: the regions of a content slide are ordered and do not overlap.
C5_LayoutNonOverlap ==
    \A i \in 1..Len(deck) :
        deck[i].role = "ContentSlide" =>
            LET rs == SelectSeq(deck[i].regions, IsTypedRegion)
            IN  /\ \A j \in 1..Len(rs) : rs[j].top >= 0 /\ rs[j].height >= 0
                /\ \A j \in 1..(Len(rs) - 1) :
                      /\ Rank(rs[j].kind) < Rank(rs[j + 1].kind)
                      /\ rs[j + 1].top >= rs[j].top + rs[j].height

(***************************************************************************)
(* C6.  While a code block is open, a line that is not a fence line is     *)
(* appended to the code lines as it stands (a blank one as '') and leaves  *)
(* the title, the subtitles, the content and the table lines alone,        *)
(* whatever it looks like.                                                 *)
(***************************************************************************)
C6_FenceStep ==
    pc = "line" /\ li <= Len(lines) /\ in_code_block /\ ~IsFenceBoundary(lines[li]) =>
        /\ code_lines' = Append(code_lines,
                                IF Strip(lines[li]) = <<>> THEN <<>> ELSE lines[li])
        /\ slide_data' = slide_data
        /\ table_lines' = table_lines
        /\ in_code_block'

\* C6: every step on a non-fence line inside an open block only appends it
\* to the code lines.
C6_FenceIntegrity == [][C6_FenceStep]_vars

\* A "# " line and a table row have been read inside an open block.
C6_Witness ==
    /\ pc = "line" /\ in_code_block
    /\ code_lines = <<H1_A, ROW_AB>>
    /\ slide_data = EmptySlide /\ table_lines = <<>>

(***************************************************************************)
(* C7.  No more slides than non-blank segments; a document made only of    *)
(* rules of three or more hyphens and of white space gives no slide, and   *)
(* no content line is made of hyphens only.                                *)
(***************************************************************************)
InHyphenRun(s, i) ==
    \E a \in 1..i : \E b \in i..Len(s) :
        /\ b - a + 1 >= 3
        /\ \A k \in a..b : s[k] = "-"

OnlyRulesAndWhitespace(s) ==
    \A i \in 1..Len(s) : IsSpace(s[i]) \/ (s[i] = "-" /\ InHyphenRun(s, i))

NonBlankSections ==
    Cardinality({i \in 1..Len(sections) : Strip(sections[i]) # <<>>})

OnlyHyphens(s) == s # <<>> /\ \A i \in 1..Len(s) : s[i] = "-"

\* C7: rules of three or more hyphens leave no slide and no residue.
C7_RulesContributeNothing ==
    pc = "done" =>
        /\ Len(slides) <= NonBlankSections
        /\ (OnlyRulesAndWhitespace(content) => slides = <<>>)
        /\ \A i \in 1..Len(slides) : \A k \in 1..Len(slides[i].content) :
              ~OnlyHyphens(slides[i].content[k])

(***************************************************************************)
(* C8.  At the end of a segment a slide is added exactly when its title,   *)
(* content, table or code is non-empty; every slide added has one of the   *)
(* four non-empty; when none is added title_slide_done keeps its value.    *)
(***************************************************************************)
C8_EveryModelNonEmpty == \A i \in 1..Len(slides) : ~FourFieldsEmpty(slides[i])

C8_EndStep ==
    pc = "line" /\ li > Len(lines) =>
        IF FourFieldsEmpty(slide_data')
        THEN slides' = slides /\ title_slide_done' = title_slide_done
        ELSE slides' = Append(slides, slide_data')

\* C8: a slide is added exactly when one of the four fields is non-empty,
\* and the flag is kept when none is added.
C8_EmissionRule == [](C8_EveryModelNonEmpty) /\ [][C8_EndStep]_vars

\* A segment holding only a "### " line has ended: no slide, flag unset.
C8_Witness ==
    /\ pc = "section" /\ si > 1
    /\ slide_data.subtitles # <<>> /\ FourFieldsEmpty(slide_data)
    /\ slides = <<>> /\ ~title_slide_done

(***************************************************************************)
(* C9.  Slide 1 is laid out as the title slide whatever it holds; a later  *)
(* slide as a section slide exactly when its title carries the section     *)
(* marker and it has no content, table or code, else as a content slide.   *)
(***************************************************************************)
HasSectionMarker(title) == StartsWith(title, SEC_FIRST) /\ Contains(title, SEC_PART)

\* C9: the role of every slide laid out, by its index and its fields.
C9_RoleDetermination ==
    \A i \in 1..Len(deck) :
        LET sd == slides[i]
            bare == sd.content = <<>> /\ sd.table = <<>> /\ sd.code = <<>>
        IN  /\ deck[i].role \in {"TitleSlide", "SectionSlide", "ContentSlide"}
            /\ (deck[i].role = "TitleSlide") <=> (i = 1)
            /\ (deck[i].role = "SectionSlide") <=>
                   (i > 1 /\ HasSectionMarker(sd.title) /\ bare)

\* Two slides that both carry the section marker: the first was laid out as
\* the title slide, the second as a section slide.
C9_Witness ==
    /\ Len(deck) = 2
    /\ HasSectionMarker(slides[1].title) /\ slides[1].content = <<>>
    /\ deck[1].role = "TitleSlide"
    /\ deck[2].role = "SectionSlide"

(***************************************************************************)
(* C10.  When a segment ends, the code of its slide is the interior of     *)
(* the last fence closed in it: earlier fences leave nothing, and a last   *)
(* fence that is empty leaves no code.                                     *)
(***************************************************************************)
C10_LastClosedFenceWins ==
    pc = "section" =>
        /\ slide_data.code = LastClosedFence(lines)
        /\ (slides # <<>> /\ ~FourFieldsEmpty(slide_data) => Last(slides) = slide_data)

\* A slide added from a segment with two closed fences, the first holding a
\* line and the second none: the slide has no code.
C10_Witness ==
    /\ pc = "section"
    /\ Len(FenceIdx(lines)) = 4
    /\ Interior(lines, FenceIdx(lines)[1], FenceIdx(lines)[2]) # <<>>
    /\ slide_data.code = <<>>
    /\ slides # <<>> /\ Last(slides) = slide_data

====
